---- MODULE Spec2Model ----
(***************************************************************************)
(* Model of the Mermaid-to-IVR pipeline: MermaidParser.parse               *)
(* (src/parse_mermaid.py) and IVRTransformer.transform                     *)
(* (src/graph_to_ivr.py).                                                  *)
(*                                                                         *)
(* A Python str is a sequence of one-character strings, so that the        *)
(* regular expressions, str.lower, str.strip, str.split, str.capitalize    *)
(* and the substring tests are computed character by character.            *)
(* An Optional value is <<>> (None) or <<v>>.  A Python dict is a          *)
(* sequence of <<key, value>> pairs in insertion order.                    *)
(***************************************************************************)
EXTENDS Integers, Sequences, FiniteSets, TLC

VARIABLES pc, lines, nodes, edges, subgraphs, styles, node_classes,
          current_subgraph, ivr_nodes, node, ivr_node, transformer,
          second_ivr_nodes

vars == <<pc, lines, nodes, edges, subgraphs, styles, node_classes,
          current_subgraph, ivr_nodes, node, ivr_node, transformer,
          second_ivr_nodes>>

(***************************************************************************)
(* Characters and str methods                                              *)
(***************************************************************************)
UpperLetters == <<"A","B","C","D","E","F","G","H","I","J","K","L","M","N","O","P","Q","R","S","T","U","V","W","X","Y","Z">>

LowerLetters == <<"a","b","c","d","e","f","g","h","i","j","k","l","m","n","o","p","q","r","s","t","u","v","w","x","y","z">>

Digits == {"0", "1", "2", "3", "4", "5", "6", "7", "8", "9"}

Letters == {UpperLetters[i] : i \in 1..26} \cup {LowerLetters[i] : i \in 1..26}

\* \w of the re module (ASCII part)
WordChars == Letters \cup Digits \cup {"_"}

\* \s of the re module, and what str.strip and str.split take as whitespace
SpaceChars == {" ", "\t"}

None == <<>>

Some(v) == <<v>>

Min(S) == CHOOSE m \in S : \A k \in S : m <= k

\* the lower-case letter of each upper-case letter
LowerOf == [c \in {UpperLetters[i] : i \in 1..26} |->
               LowerLetters[CHOOSE i \in 1..26 : UpperLetters[i] = c]]

\* the upper-case letter of each lower-case letter
UpperOf == [c \in {LowerLetters[i] : i \in 1..26} |->
               UpperLetters[CHOOSE i \in 1..26 : LowerLetters[i] = c]]

\* one character of str.lower
LowerChar(c) == IF c \in DOMAIN LowerOf THEN LowerOf[c] ELSE c

\* one character of str.upper
UpperChar(c) == IF c \in DOMAIN UpperOf THEN UpperOf[c] ELSE c

\* str.lower
Lower(s) == [i \in 1..Len(s) |-> LowerChar(s[i])]

\* str.capitalize: first character upper-cased, the rest lower-cased
Capitalize(w) ==
    [i \in 1..Len(w) |-> IF i = 1 THEN UpperChar(w[i]) ELSE LowerChar(w[i])]

\* str.startswith
StartsWith(s, p) == Len(s) >= Len(p) /\ \A k \in 1..Len(p) : s[k] = p[k]

\* s[i:].startswith(p), i counted from 1
HasAt(s, i, p) ==
    /\ i >= 1
    /\ i + Len(p) - 1 <= Len(s)
    /\ \A k \in 1..Len(p) : s[i + k - 1] = p[k]

\* the operator "p in s" on two strs
Contains(s, p) == \E i \in 1..(Len(s) + 1) : HasAt(s, i, p)

\* str.replace(old, new) for one-character old and new
ReplaceChar(s, old, new) == [i \in 1..Len(s) |-> IF s[i] = old THEN new ELSE s[i]]

\* str.strip
Strip(s) ==
    LET keep == {i \in 1..Len(s) : s[i] \notin SpaceChars}
    IN  IF keep = {} THEN <<>>
        ELSE SubSeq(s, Min(keep), CHOOSE m \in keep : \A k \in keep : k <= m)

RECURSIVE SplitAcc(_, _, _)
SplitAcc(s, cur, acc) ==
    IF s = <<>> THEN (IF cur = <<>> THEN acc ELSE Append(acc, cur))
    ELSE IF Head(s) \in SpaceChars
         THEN SplitAcc(Tail(s), <<>>, IF cur = <<>> THEN acc ELSE Append(acc, cur))
         ELSE SplitAcc(Tail(s), Append(cur, Head(s)), acc)

\* str.split() with no argument: the maximal runs of non-whitespace
Split(s) == SplitAcc(s, <<>>, <<>>)

RECURSIVE Join(_, _)
\* sep.join(words)
Join(sep, words) ==
    IF words = <<>> THEN <<>>
    ELSE IF Len(words) = 1 THEN words[1]
    ELSE words[1] \o sep \o Join(sep, Tail(words))

\* first index >= i of s holding a character outside cs (Len(s)+1 if none):
\* where a greedy [cs]* starting at i stops
SpanEnd(s, i, cs) ==
    LET stops == {j \in i..Len(s) : s[j] \notin cs}
    IN  IF stops = {} THEN Len(s) + 1 ELSE Min(stops)

\* first index >= i of s holding the character c (Len(s)+1 if none):
\* where a greedy [^c]* starting at i stops
SpanEndNot(s, i, c) ==
    LET stops == {j \in i..Len(s) : s[j] = c}
    IN  IF stops = {} THEN Len(s) + 1 ELSE Min(stops)

(***************************************************************************)
(* Python dict: insertion-ordered sequence of <<key, value>>               *)
(***************************************************************************)
DictHas(d, k) == \E i \in 1..Len(d) : d[i][1] = k

DictGet(d, k) == d[CHOOSE i \in 1..Len(d) : d[i][1] = k][2]

\* d[k] = v : a present key keeps its position, a new key goes last
DictSet(d, k, v) ==
    IF DictHas(d, k)
    THEN [i \in 1..Len(d) |-> IF d[i][1] = k THEN <<k, v>> ELSE d[i]]
    ELSE Append(d, <<k, v>>)

DictKeys(d) == [i \in 1..Len(d) |-> d[i][1]]

DictValues(d) == [i \in 1..Len(d) |-> d[i][2]]

(***************************************************************************)
(* MermaidParser: the compiled patterns (re.match anchors at the start)    *)
(***************************************************************************)
Quote == "\""

\* NodeType with the delimiters of its pattern, in the insertion order of
\* self.node_patterns (the order parse() tries them in)
NodeShapes ==
    << [type |-> "normal",      open |-> <<"[">>,  close |-> <<"]">>],
       [type |-> "round",       open |-> <<"(">>,  close |-> <<")">>],
       [type |-> "stadium",     open |-> <<"(","[">>, close |-> <<"]",")">>],
       [type |-> "subroutine",  open |-> <<"[","[">>, close |-> <<"]","]">>],
       [type |-> "cylindrical", open |-> <<"[","(">>, close |-> <<")","]">>],
       [type |-> "circle",      open |-> <<"(","(">>, close |-> <<")",")">>],
       [type |-> "asymmetric",  open |-> <<">">>,  close |-> <<"]">>],
       [type |-> "rhombus",     open |-> <<"{">>,  close |-> <<"}">>],
       [type |-> "hexagon",     open |-> <<"{","{">>, close |-> <<"}","}">>] >>

\* ^(\w+)\s*OPEN"([^"]+)"CLOSE
NodePatternMatch(line, open, close) ==
    LET e1 == SpanEnd(line, 1, WordChars)
        e2 == SpanEnd(line, e1, SpaceChars)
        q  == e2 + Len(open)
        e3 == SpanEndNot(line, q + 1, Quote)
        ok == /\ e1 > 1
              /\ HasAt(line, e2, open)
              /\ HasAt(line, q, <<Quote>>)
              /\ e3 > q + 1
              /\ e3 <= Len(line)
              /\ HasAt(line, e3 + 1, close)
    IN  IF ok
        THEN [ok |-> TRUE, id |-> SubSeq(line, 1, e1 - 1),
              text |-> SubSeq(line, q + 1, e3 - 1)]
        ELSE [ok |-> FALSE, id |-> <<>>, text |-> <<>>]

\* indexes of the shapes whose pattern matches the line
MatchingShapes(line) ==
    {k \in 1..Len(NodeShapes) :
        NodePatternMatch(line, NodeShapes[k].open, NodeShapes[k].close).ok}

\* ^(\w+)\s*(-(?:-|\.)*>)\s*(?:\|([^|]+)\|)?\s*(\w+)(?:\s+(.*))?
EdgePatternMatch(line) ==
    LET n  == Len(line)
        e1 == SpanEnd(line, 1, WordChars)
        e2 == SpanEnd(line, e1, SpaceChars)
        e3 == SpanEnd(line, e2 + 1, {"-", "."})
        e4 == SpanEnd(line, e3 + 1, SpaceChars)
        piped == e4 <= n /\ line[e4] = "|"
        e5 == SpanEndNot(line, e4 + 1, "|")
        labelled == piped /\ e5 > e4 + 1 /\ e5 <= n
        e6 == SpanEnd(line, IF labelled THEN e5 + 1 ELSE e4, SpaceChars)
        e7 == SpanEnd(line, e6, WordChars)
        e8 == SpanEnd(line, e7, SpaceChars)
        ok == /\ e1 > 1
              /\ HasAt(line, e2, <<"-">>)
              /\ HasAt(line, e3, <<">">>)
              /\ (piped => labelled)
              /\ e7 > e6
    IN  IF ok
        THEN [ok |-> TRUE,
              from_id |-> SubSeq(line, 1, e1 - 1),
              arrow |-> SubSeq(line, e2, e3),
              label |-> IF labelled THEN Some(SubSeq(line, e4 + 1, e5 - 1)) ELSE None,
              to_id |-> SubSeq(line, e6, e7 - 1),
              style |-> IF e8 > e7 THEN Some(SubSeq(line, e8, n)) ELSE None]
        ELSE [ok |-> FALSE, from_id |-> <<>>, arrow |-> <<>>, label |-> None,
              to_id |-> <<>>, style |-> None]

\* ^subgraph\s+(\w+)(?:\s*\[([^\]]+)\])?
SubgraphPatternMatch(line) ==
    LET n  == Len(line)
        e1 == SpanEnd(line, 9, SpaceChars)
        e2 == SpanEnd(line, e1, WordChars)
        e3 == SpanEnd(line, e2, SpaceChars)
        e4 == SpanEndNot(line, e3 + 1, "]")
        titled == HasAt(line, e3, <<"[">>) /\ e4 > e3 + 1 /\ e4 <= n
        ok == HasAt(line, 1, <<"s","u","b","g","r","a","p","h">>) /\ e1 > 9 /\ e2 > e1
    IN  IF ok
        THEN [ok |-> TRUE, id |-> SubSeq(line, e1, e2 - 1),
              title |-> IF titled THEN Some(SubSeq(line, e3 + 1, e4 - 1)) ELSE None]
        ELSE [ok |-> FALSE, id |-> <<>>, title |-> None]

\* ^end\s*$
EndPatternMatch(line) ==
    HasAt(line, 1, <<"e","n","d">>) /\ SpanEnd(line, 4, SpaceChars) = Len(line) + 1

\* ^classDef\s+(\w+)\s+(.+)$
ClassDefPatternMatch(line) ==
    LET n  == Len(line)
        e1 == SpanEnd(line, 9, SpaceChars)
        e2 == SpanEnd(line, e1, WordChars)
        e3 == SpanEnd(line, e2, SpaceChars)
        ok == HasAt(line, 1, <<"c","l","a","s","s","D","e","f">>) /\ e1 > 9 /\ e2 > e1 /\ e3 > e2 /\ e3 <= n
    IN  IF ok
        THEN [ok |-> TRUE, name |-> SubSeq(line, e1, e2 - 1), value |-> SubSeq(line, e3, n)]
        ELSE [ok |-> FALSE, name |-> <<>>, value |-> <<>>]

\* ^class\s+(\w+)\s+(\w+)$
ClassPatternMatch(line) ==
    LET n  == Len(line)
        e1 == SpanEnd(line, 6, SpaceChars)
        e2 == SpanEnd(line, e1, WordChars)
        e3 == SpanEnd(line, e2, SpaceChars)
        e4 == SpanEnd(line, e3, WordChars)
        ok == /\ HasAt(line, 1, <<"c","l","a","s","s">>) /\ e1 > 6 /\ e2 > e1 /\ e3 > e2
              /\ e4 > e3 /\ e4 = n + 1
    IN  IF ok
        THEN [ok |-> TRUE, node_id |-> SubSeq(line, e1, e2 - 1),
              class_name |-> SubSeq(line, e3, e4 - 1)]
        ELSE [ok |-> FALSE, node_id |-> <<>>, class_name |-> <<>>]

\* which branch of the loop body of parse() takes the (stripped) line
LineKind(line) ==
    IF line = <<>> \/ StartsWith(line, <<"%","%">>) THEN "skip"
    ELSE IF SubgraphPatternMatch(line).ok THEN "subgraph"
    ELSE IF EndPatternMatch(line) THEN "end"
    ELSE IF ClassDefPatternMatch(line).ok THEN "classDef"
    ELSE IF ClassPatternMatch(line).ok THEN "class"
    ELSE IF MatchingShapes(line) # {} THEN "node"
    ELSE IF EdgePatternMatch(line).ok THEN "edge"
    ELSE "none"

(***************************************************************************)
(* IVRTransformer (src/graph_to_ivr.py)                                    *)
(***************************************************************************)
\* AUDIO_PROMPTS, in definition order
AUDIO_PROMPTS ==
    << <<<<"I","n","v","a","l","i","d"," ","e","n","t","r","y","."," ","P","l","e","a","s","e"," ","t","r","y"," ","a","g","a","i","n">>, <<"c","a","l","l","f","l","o","w",":","1","0","0","9">>>>,
       <<<<"G","o","o","d","b","y","e"," ","m","e","s","s","a","g","e">>, <<"c","a","l","l","f","l","o","w",":","1","0","2","9">>>>,
       <<<<"P","l","e","a","s","e"," ","e","n","t","e","r"," ","y","o","u","r"," ","P","I","N">>, <<"c","a","l","l","f","l","o","w",":","1","0","0","8">>>>,
       <<<<"A","n"," ","a","c","c","e","p","t","e","d"," ","r","e","s","p","o","n","s","e"," ","h","a","s"," ","b","e","e","n"," ","r","e","c","o","r","d","e","d">>, <<"c","a","l","l","f","l","o","w",":","1","1","6","7">>>>,
       <<<<"Y","o","u","r"," ","r","e","s","p","o","n","s","e"," ","i","s"," ","b","e","i","n","g"," ","r","e","c","o","r","d","e","d"," ","a","s"," ","a"," ","d","e","c","l","i","n","e">>, <<"c","a","l","l","f","l","o","w",":","1","0","2","1">>>>,
       <<<<"P","l","e","a","s","e"," ","c","o","n","t","a","c","t"," ","y","o","u","r"," ","l","o","c","a","l"," ","c","o","n","t","r","o","l"," ","c","e","n","t","e","r">>, <<"c","a","l","l","f","l","o","w",":","1","7","0","5">>>>,
       <<<<"T","o"," ","s","p","e","a","k"," ","t","o"," ","a"," ","d","i","s","p","a","t","c","h","e","r">>, <<"c","a","l","l","f","l","o","w",":","1","6","4","5">>>>,
       <<<<"W","e"," ","w","e","r","e"," ","n","o","t"," ","a","b","l","e"," ","t","o"," ","c","o","m","p","l","e","t","e"," ","t","h","e"," ","t","r","a","n","s","f","e","r">>, <<"c","a","l","l","f","l","o","w",":","1","3","5","3">>>> >>

\* self.standard_nodes; an IVR node is a function from its keys to values
standard_nodes ==
    [start |->
        [label |-> <<"S","t","a","r","t">>,
         maxLoop |-> <<<<"M","a","i","n">>, 3, <<"P","r","o","b","l","e","m","s">>>>,
         nobarge |-> <<"1">>,
         log |-> <<"E","n","t","r","y"," ","p","o","i","n","t"," ","t","o"," ","c","a","l","l"," ","f","l","o","w">>],
     problems |->
        [label |-> <<"P","r","o","b","l","e","m","s">>,
         gosub |-> [list |-> <<<<"S","a","v","e","C","a","l","l","R","e","s","u","l","t">>, 1198, <<"E","r","r","o","r"," ","O","u","t">>>>],
         goto |-> <<"G","o","o","d","b","y","e">>],
     goodbye |->
        [label |-> <<"G","o","o","d","b","y","e">>,
         log |-> <<"G","o","o","d","b","y","e"," ","m","e","s","s","a","g","e">>,
         playPrompt |-> <<<<"c","a","l","l","f","l","o","w",":","1","0","2","9">>>>,
         nobarge |-> <<"1">>,
         goto |-> <<"h","a","n","g","u","p">>]]

\* self.result_codes, in insertion order (the order the loop of
\* _add_special_commands visits the keys in)
result_codes ==
    << [key |-> <<"a","c","c","e","p","t">>,       code |-> 1001, name |-> <<"A","c","c","e","p","t">>],
       [key |-> <<"d","e","c","l","i","n","e">>,      code |-> 1002, name |-> <<"D","e","c","l","i","n","e">>],
       [key |-> <<"n","o","t","_","h","o","m","e">>,     code |-> 1006, name |-> <<"N","o","t"," ","H","o","m","e">>],
       [key |-> <<"q","u","a","l","i","f","i","e","d","_","n","o">>, code |-> 1145, name |-> <<"Q","u","a","l","N","o">>],
       [key |-> <<"e","r","r","o","r">>,        code |-> 1198, name |-> <<"E","r","r","o","r"," ","O","u","t">>] >>

\* IVRTransformer(): the fields __init__ gives a transformer
IVRTransformer == [standard_nodes |-> standard_nodes, result_codes |-> result_codes]

\* the keyword list of the nobarge test
NobargeKeywords == {<<"g","o","o","d","b","y","e">>, <<"r","e","c","o","r","d","e","d">>, <<"m","e","s","s","a","g","e">>, <<"p","l","e","a","s","e">>}

\* ivr_node[k] = v
SetKey(ivr, k, v) == (k :> v) @@ ivr

\* ' '.join(word.capitalize() for word in s.replace('_', ' ').split())
ToTitleCase(s) ==
    LET words == Split(ReplaceChar(s, "_", " "))
    IN  Join(<<" ">>, [i \in 1..Len(words) |-> Capitalize(words[i])])

\* key.lower() of each key of AUDIO_PROMPTS
PromptKeysLower == [i \in 1..Len(AUDIO_PROMPTS) |-> Lower(AUDIO_PROMPTS[i][1])]

\* _find_audio_prompt: None, or the prompt of the exact key, else of the
\* first key found in the text, both lower-cased
FindAudioPrompt(text) ==
    LET text_lower == Lower(text)
        hits == {i \in 1..Len(AUDIO_PROMPTS) : Contains(text_lower, PromptKeysLower[i])}
    IN  IF DictHas(AUDIO_PROMPTS, text) THEN Some(DictGet(AUDIO_PROMPTS, text))
        ELSE IF hits # {} THEN Some(AUDIO_PROMPTS[Min(hits)][2])
        ELSE None

\* _apply_style: both branches are "pass"
ApplyStyle(ivr, style) == ivr

RECURSIVE ApplyStyles(_, _, _)
\* the "Apply styles" loop of _transform_node
ApplyStyles(ivr, style_classes, sty) ==
    IF style_classes = <<>> THEN ivr
    ELSE ApplyStyles(
            IF DictHas(sty, Head(style_classes))
            THEN ApplyStyle(ivr, DictGet(sty, Head(style_classes)))
            ELSE ivr,
            Tail(style_classes), sty)

\* [e for e in edges if e.from_id == node.id]
OutEdges(es, id) == SelectSeq(es, LAMBDA e : e.from_id = id)

\* re.match(r'^(\d+)\s*-\s*(.*)', label): the groups, or ok = FALSE
DigitMatch(label) ==
    LET d1 == SpanEnd(label, 1, Digits)
        d2 == SpanEnd(label, d1, SpaceChars)
        d3 == SpanEnd(label, d2 + 1, SpaceChars)
    IN  IF d1 > 1 /\ HasAt(label, d2, <<"-">>)
        THEN [ok |-> TRUE, digit |-> SubSeq(label, 1, d1 - 1),
              action |-> SubSeq(label, d3, Len(label))]
        ELSE [ok |-> FALSE, digit |-> <<>>, action |-> <<>>]

\* the search with the fault of leaving re.IGNORECASE out
InvalidMatchCaseSensitive(label) ==
    Contains(label, <<"i","n","v","a","l","i","d">>) \/ Contains(label, <<"n","o"," ","i","n","p","u","t">>)

\* re.search(r'invalid|no input', label, re.IGNORECASE)
InvalidMatch(label) ==
    Contains(Lower(label), <<"i","n","v","a","l","i","d">>) \/ Contains(Lower(label), <<"n","o"," ","i","n","p","u","t">>)

RECURSIVE BranchLoop(_, _, _)
\* the loop over out_edges of _handle_decision_node; acc holds branch_map
\* and digit_choices
BranchLoop(out_edges, acc, k) ==
    IF k > Len(out_edges) THEN acc
    ELSE
      LET edge == out_edges[k]
          target == ToTitleCase(edge.to_id)
      IN  IF edge.label = None \/ edge.label[1] = <<>>
          THEN BranchLoop(out_edges, acc, k + 1)
          ELSE
            LET label == edge.label[1]
                dm == DigitMatch(label)
            IN  IF dm.ok
                THEN BranchLoop(out_edges,
                        [branch_map |-> DictSet(acc.branch_map, dm.digit, target),
                         digit_choices |-> Append(acc.digit_choices, dm.digit)],
                        k + 1)
                ELSE IF InvalidMatch(label)
                THEN BranchLoop(out_edges,
                        [acc EXCEPT !.branch_map =
                            DictSet(DictSet(acc.branch_map, <<"e","r","r","o","r">>, target),
                                    <<"n","o","n","e">>, target)],
                        k + 1)
                ELSE BranchLoop(out_edges,
                        [acc EXCEPT !.branch_map = DictSet(acc.branch_map, label, target)],
                        k + 1)

\* _handle_decision_node
HandleDecisionNode(ivr, n, es) ==
    LET out_edges == OutEdges(es, n.id)
        r == BranchLoop(out_edges, [branch_map |-> <<>>, digit_choices |-> <<>>], 1)
        getDigits ==
            [numDigits |-> 1, maxTries |-> 3, maxTime |-> 7,
             validChoices |-> IF r.digit_choices # <<>>
                              THEN Join(<<"|">>, r.digit_choices) ELSE <<>>,
             errorPrompt |-> <<"c","a","l","l","f","l","o","w",":","1","0","0","9">>,
             nonePrompt |-> <<"c","a","l","l","f","l","o","w",":","1","0","0","9">>]
    IN  SetKey(SetKey(ivr, "getDigits", getDigits), "branch", r.branch_map)

\* _handle_action_node with the fault "len(out_edges) >= 1": a goto to the
\* first target also when several edges leave the node
HandleActionNodeAnyEdge(ivr, n, es) ==
    LET out_edges == OutEdges(es, n.id)
        audio_prompt == FindAudioPrompt(n.raw_text)
        prompted == SetKey(ivr, "playPrompt",
                        IF audio_prompt # None THEN <<audio_prompt[1]>>
                        ELSE <<<<"t","t","s",":">> \o n.raw_text>>)
    IN  IF Len(out_edges) >= 1
        THEN SetKey(prompted, "goto", ToTitleCase(out_edges[1].to_id))
        ELSE prompted

\* _handle_action_node
HandleActionNode(ivr, n, es) ==
    LET out_edges == OutEdges(es, n.id)
        audio_prompt == FindAudioPrompt(n.raw_text)
        prompted == SetKey(ivr, "playPrompt",
                        IF audio_prompt # None THEN <<audio_prompt[1]>>
                        ELSE <<<<"t","t","s",":">> \o n.raw_text>>)
    IN  IF Len(out_edges) = 1
        THEN SetKey(prompted, "goto", ToTitleCase(out_edges[1].to_id))
        ELSE prompted

\* _add_special_commands with the fault of detecting transfers before the
\* result codes, so that a result code overwrites the transfer's gosub
AddSpecialCommandsTransferFirst(self, ivr, raw_text) ==
    LET text_lower == Lower(raw_text)
        hits == {i \in 1..Len(self.result_codes) : Contains(text_lower, self.result_codes[i].key)}
        transferred ==
            IF Contains(text_lower, <<"t","r","a","n","s","f","e","r">>)
            THEN SetKey(SetKey(SetKey(ivr,
                    "setvar", [transfer_ringback |-> <<"c","a","l","l","f","l","o","w",":","2","2","2","3">>]),
                    "include", <<".",".","/",".",".","/","u","t","i","l","/","x","f","e","r",".","j","s">>),
                    "gosub", [str |-> <<"X","f","e","r","C","a","l","l">>])
            ELSE ivr
        coded == IF hits = {} THEN transferred
                 ELSE SetKey(transferred, "gosub",
                        [list |-> <<<<"S","a","v","e","C","a","l","l","R","e","s","u","l","t">>, self.result_codes[Min(hits)].code,
                                    self.result_codes[Min(hits)].name>>])
    IN  IF \E keyword \in NobargeKeywords : Contains(text_lower, keyword)
        THEN SetKey(coded, "nobarge", <<"1">>)
        ELSE coded

\* _add_special_commands
AddSpecialCommands(self, ivr, raw_text) ==
    LET text_lower == Lower(raw_text)
        hits == {i \in 1..Len(self.result_codes) : Contains(text_lower, self.result_codes[i].key)}
        coded == IF hits = {} THEN ivr
                 ELSE SetKey(ivr, "gosub",
                        [list |-> <<<<"S","a","v","e","C","a","l","l","R","e","s","u","l","t">>, self.result_codes[Min(hits)].code,
                                    self.result_codes[Min(hits)].name>>])
        barged == IF \E keyword \in NobargeKeywords : Contains(text_lower, keyword)
                  THEN SetKey(coded, "nobarge", <<"1">>)
                  ELSE coded
    IN  IF Contains(text_lower, <<"t","r","a","n","s","f","e","r">>)
        THEN SetKey(SetKey(SetKey(barged,
                "setvar", [transfer_ringback |-> <<"c","a","l","l","f","l","o","w",":","2","2","2","3">>]),
                "include", <<".",".","/",".",".","/","u","t","i","l","/","x","f","e","r",".","j","s">>),
                "gosub", [str |-> <<"X","f","e","r","C","a","l","l">>])
        ELSE barged

\* the list a Node's style_classes refers to: parse() gives the node the
\* list object held by node_classes when the id has one at declaration
\* time, and a fresh empty list otherwise
StyleClasses(n, classes) ==
    IF n.style_classes.shared THEN DictGet(classes, n.id) ELSE <<>>

\* "Build base node" of _transform_node
BaseNode(n) == [label |-> ToTitleCase(n.id), log |-> n.raw_text]

\* the shape branch of _transform_node
HandleShape(ivr, n, es) ==
    IF n.node_type = "rhombus"
    THEN HandleDecisionNode(ivr, n, es)
    ELSE HandleActionNode(ivr, n, es)

\* _transform_node
TransformNode(self, n, es, sty, classes) ==
    AddSpecialCommands(self,
        HandleShape(ApplyStyles(BaseNode(n), StyleClasses(n, classes), sty), n, es),
        n.raw_text)

\* whether some element of the list has the label
HasLabel(out, label) == \E i \in 1..Len(out) : out[i].label = label

\* the test of "Add initial node if needed"
NeedsStart(nodes_dict) ==
    ~ \E i \in 1..Len(nodes_dict) :
          StartsWith(Lower(nodes_dict[i][2].raw_text), <<"s","t","a","r","t">>)

\* IVRTransformer.transform
TransformGraph(self, nodes_dict, es, sty, classes) ==
    LET initial == IF NeedsStart(nodes_dict) THEN <<self.standard_nodes.start>> ELSE <<>>
        processed == initial \o
            [i \in 1..Len(nodes_dict) |->
                TransformNode(self, nodes_dict[i][2], es, sty, classes)]
        with_problems == IF ~HasLabel(processed, <<"P","r","o","b","l","e","m","s">>)
                         THEN Append(processed, self.standard_nodes.problems)
                         ELSE processed
    IN  IF ~HasLabel(with_problems, <<"G","o","o","d","b","y","e">>)
        THEN Append(with_problems, self.standard_nodes.goodbye)
        ELSE with_problems

\* a transform() with the fault of counting its calls in the retry limit
\* of the standard start node
SelfAfterTransformCounting(self) ==
    [self EXCEPT !.standard_nodes.start.maxLoop[2] = @ + 1]

\* the fields of the transformer self when transform() returns: no
\* statement of transform() or of the methods it calls assigns to self, to
\* self.standard_nodes or to self.result_codes
SelfAfterTransform(self) == self

(***************************************************************************)
(* MermaidParser.parse: one action per branch of the loop body.            *)
(* lines holds the lines the loop has consumed so far.                     *)
(***************************************************************************)
(***************************************************************************)
(* The lines the diagrams are made of                                      *)
(***************************************************************************)
DiagramLines ==
    { <<"f","l","o","w","c","h","a","r","t"," ","T","D">>,
      <<" "," ","%","%"," ","n","o","t","e">>,
      <<"s","u","b","g","r","a","p","h"," ","A">>,
      <<"s","u","b","g","r","a","p","h"," ","B"," ","[","I","n","n","e","r","]">>,
      <<"e","n","d">>,
      <<"c","l","a","s","s","D","e","f"," ","h","o","t"," ","f","i","l","l",":","#","f","9","6">>,
      <<"c","l","a","s","s"," ","n"," ","h","o","t">>,
      <<"c","l","a","s","s"," ","n"," ","c","o","l","d">>,
      <<"n","[","\"","x","\"","]">>,
      <<"m","{","\"","y","\"","}">>,
      <<"n"," ","-","-",">"," ","m">> }

\* node ids and texts of the diagrams of SpecLabels
LabelIds == {<<"s","t","a","r","t">>, <<"b","e","g","i","n">>, <<"_">>, <<"p","r","o","b","l","e","m","s">>, <<"P","R","O","B","L","E","M","S">>}

LabelTexts == {<<"S","t","a","r","t"," ","o","f"," ","c","a","l","l">>, <<"E","n","t","e","r"," ","P","I","N">>}

\* the declarations id["text"]
LabelLines == {id \o <<"[","\"">> \o text \o <<"\"","]">> : id \in LabelIds, text \in LabelTexts}

\* lines of DEFAULT_MERMAID (src/app.py), whose label
\* "invalid input\nor no input" spans two lines of the text, and the same
\* edges with the label on one line and with the quotes left out
ExampleLines ==
    { <<"f","l","o","w","c","h","a","r","t"," ","T","D">>,
      <<" "," "," "," ","s","t","a","r","t","[","\"","S","t","a","r","t"," ","o","f"," ","c","a","l","l","\"","]">>,
      <<" "," "," "," ","i","n","p","u","t","{","\"","i","n","p","u","t","\"","}">>,
      <<" "," "," "," ","i","n","p","u","t"," ","-","-",">","|","\"","i","n","v","a","l","i","d"," ","i","n","p","u","t">>,
      <<"o","r"," ","n","o"," ","i","n","p","u","t","\"","|"," ","i","n","v","a","l","i","d">>,
      <<" "," "," "," ","i","n","p","u","t"," ","-","-",">","|","\"","1"," ","-"," ","a","c","c","e","p","t","\"","|"," ","a","c","c","e","p","t">>,
      <<" "," "," "," ","i","n","p","u","t"," ","-","-",">","|","\"","i","n","v","a","l","i","d"," ","i","n","p","u","t","\"","|"," ","i","n","v","a","l","i","d">>,
      <<" "," "," "," ","i","n","p","u","t"," ","-","-",">","|","1"," ","-"," ","a","c","c","e","p","t","|"," ","a","c","c","e","p","t">>,
      <<" "," "," "," ","i","n","p","u","t"," ","-","-",">","|","i","n","v","a","l","i","d"," ","i","n","p","u","t","|"," ","i","n","v","a","l","i","d">> }

\* edge lines of the "Transfer Flow" example of load_example_flows
\* (src/app.py), its last line holding two sources, and the chains of two
\* edges on one line
ChainLines ==
    { <<" "," "," "," ","s","t","a","r","t"," ","-","-",">"," ","a","t","t","e","m","p","t">>,
      <<" "," "," "," ","a","t","t","e","m","p","t"," ","-","-",">","|","F","a","i","l","|"," ","f","a","i","l">>,
      <<" "," "," "," ","s","u","c","c","e","s","s"," ","&"," ","f","a","i","l"," ","-","-",">"," ","e","n","d">>,
      <<"A"," ","-","-",">"," ","B"," ","-","-",">"," ","C">>,
      <<"A"," ","-","-",">","|","x","|"," ","B"," ","-",".","-",">"," ","C">> }

\* lines of the diagrams transformed twice: a start node, a decision node
\* with two labelled edges and a node named problems
TwiceLines ==
    { <<" "," "," "," ","s","t","a","r","t","[","\"","S","t","a","r","t"," ","o","f"," ","c","a","l","l","\"","]">>,
      <<" "," "," "," ","i","n","p","u","t","{","\"","i","n","p","u","t","\"","}">>,
      <<" "," "," "," ","i","n","p","u","t"," ","-","-",">","|","1"," ","-"," ","a","c","c","e","p","t","|"," ","a","c","c","e","p","t">>,
      <<" "," "," "," ","i","n","p","u","t"," ","-","-",">","|","i","n","v","a","l","i","d"," ","i","n","p","u","t","|"," ","i","n","v","a","l","i","d">>,
      <<"p","r","o","b","l","e","m","s","[","\"","E","n","t","e","r"," ","P","I","N","\"","]">> }

\* every line a diagram is drawn from
InputLines == DiagramLines \cup LabelLines \cup ExampleLines \cup ChainLines

\* LineKind of each input line after line.strip(), computed once
KindOf == [raw \in InputLines |-> LineKind(Strip(raw))]

\* longest diagram read, in lines
MaxLines == 4

Reading == pc = "parse" /\ Len(lines) < MaxLines

\* "Skip empty lines and comments"
SkipLine(raw) ==
    /\ Reading
    /\ KindOf[raw] = "skip"
    /\ lines' = Append(lines, raw)
    /\ UNCHANGED <<pc, nodes, edges, subgraphs, styles, node_classes,
                   current_subgraph, ivr_nodes, node, ivr_node,
                   transformer, second_ivr_nodes>>

\* "Process subgraph definition"
ProcessSubgraphDefinition(raw) ==
    LET line == Strip(raw)
        subgraph_match == SubgraphPatternMatch(line)
        sg_id == subgraph_match.id
        sg_title == IF subgraph_match.title # None THEN subgraph_match.title[1] ELSE sg_id
    IN  /\ Reading
        /\ KindOf[raw] = "subgraph"
        /\ lines' = Append(lines, raw)
        /\ subgraphs' = DictSet(subgraphs, sg_id,
                            [id |-> sg_id, title |-> sg_title,
                             parent |-> current_subgraph, style_classes |-> <<>>])
        /\ current_subgraph' = Some(sg_id)
        /\ UNCHANGED <<pc, nodes, edges, styles, node_classes, ivr_nodes, node,
                       ivr_node, transformer, second_ivr_nodes>>

\* "Process subgraph end"
ProcessSubgraphEnd(raw) ==
    /\ Reading
    /\ KindOf[raw] = "end"
    /\ lines' = Append(lines, raw)
    /\ current_subgraph' = None
    /\ UNCHANGED <<pc, nodes, edges, subgraphs, styles, node_classes,
                   ivr_nodes, node, ivr_node, transformer, second_ivr_nodes>>

\* "Process class definition"
ProcessClassDefinition(raw) ==
    LET line == Strip(raw)
        class_def_match == ClassDefPatternMatch(line)
    IN  /\ Reading
        /\ KindOf[raw] = "classDef"
        /\ lines' = Append(lines, raw)
        /\ styles' = DictSet(styles, class_def_match.name, class_def_match.value)
        /\ UNCHANGED <<pc, nodes, edges, subgraphs, node_classes,
                       current_subgraph, ivr_nodes, node, ivr_node,
                       transformer, second_ivr_nodes>>

\* "Process class assignment"
ProcessClassAssignment(raw) ==
    LET line == Strip(raw)
        class_match == ClassPatternMatch(line)
        node_id == class_match.node_id
        old == IF DictHas(node_classes, node_id) THEN DictGet(node_classes, node_id)
               ELSE <<>>
    IN  /\ Reading
        /\ KindOf[raw] = "class"
        /\ lines' = Append(lines, raw)
        /\ node_classes' = DictSet(node_classes, node_id, Append(old, class_match.class_name))
        /\ UNCHANGED <<pc, nodes, edges, subgraphs, styles,
                       current_subgraph, ivr_nodes, node, ivr_node,
                       transformer, second_ivr_nodes>>

\* "Process nodes": the first pattern of node_patterns that matches
ProcessNodes(raw) ==
    LET line == Strip(raw)
        k == Min(MatchingShapes(line))
        match == NodePatternMatch(line, NodeShapes[k].open, NodeShapes[k].close)
    IN  /\ Reading
        /\ KindOf[raw] = "node"
        /\ lines' = Append(lines, raw)
        /\ nodes' = DictSet(nodes, match.id,
                        [id |-> match.id,
                         raw_text |-> match.text,
                         node_type |-> NodeShapes[k].type,
                         style_classes |-> [shared |-> DictHas(node_classes, match.id)],
                         subgraph |-> current_subgraph])
        /\ UNCHANGED <<pc, edges, subgraphs, styles, node_classes,
                       current_subgraph, ivr_nodes, node, ivr_node,
                       transformer, second_ivr_nodes>>

\* "Process edges"
ProcessEdges(raw) ==
    LET line == Strip(raw)
        edge_match == EdgePatternMatch(line)
    IN  /\ Reading
        /\ KindOf[raw] = "edge"
        /\ lines' = Append(lines, raw)
        /\ edges' = Append(edges,
                        [from_id |-> edge_match.from_id,
                         to_id |-> edge_match.to_id,
                         label |-> IF edge_match.label # None
                                   THEN Some(Strip(edge_match.label[1])) ELSE None,
                         style |-> edge_match.style])
        /\ UNCHANGED <<pc, nodes, subgraphs, styles, node_classes,
                       current_subgraph, ivr_nodes, node, ivr_node,
                       transformer, second_ivr_nodes>>

\* a line no branch takes: the loop goes on to the next line
IgnoreLine(raw) ==
    /\ Reading
    /\ KindOf[raw] = "none"
    /\ lines' = Append(lines, raw)
    /\ UNCHANGED <<pc, nodes, edges, subgraphs, styles, node_classes,
                   current_subgraph, ivr_nodes, node, ivr_node,
                   transformer, second_ivr_nodes>>

\* the loop is over: parse() returns the graph
ParseReturn ==
    /\ pc = "parse"
    /\ pc' = "parsed"
    /\ UNCHANGED <<lines, nodes, edges, subgraphs, styles, node_classes,
                   current_subgraph, ivr_nodes, node, ivr_node,
                   transformer, second_ivr_nodes>>

\* graph_to_ivr(graph): IVRTransformer().transform(graph)
Transform ==
    /\ pc = "parsed"
    /\ ivr_nodes' = TransformGraph(IVRTransformer, nodes, edges, styles, node_classes)
    /\ transformer' = SelfAfterTransform(IVRTransformer)
    /\ pc' = "done"
    /\ UNCHANGED <<lines, nodes, edges, subgraphs, styles, node_classes,
                   current_subgraph, node, ivr_node, second_ivr_nodes>>

\* a second transform(graph) on the transformer of the first call
TransformAgain ==
    /\ pc = "done"
    /\ second_ivr_nodes' = TransformGraph(transformer, nodes, edges, styles, node_classes)
    /\ transformer' = SelfAfterTransform(transformer)
    /\ pc' = "again"
    /\ UNCHANGED <<lines, nodes, edges, subgraphs, styles, node_classes,
                   current_subgraph, ivr_nodes, node, ivr_node>>

\* a second graph_to_ivr(graph), which makes a transformer of its own
GraphToIvrAgain ==
    /\ pc = "done"
    /\ second_ivr_nodes' = TransformGraph(IVRTransformer, nodes, edges, styles, node_classes)
    /\ transformer' = SelfAfterTransform(IVRTransformer)
    /\ pc' = "again_new"
    /\ UNCHANGED <<lines, nodes, edges, subgraphs, styles, node_classes,
                   current_subgraph, ivr_nodes, node, ivr_node>>

\* the state at the top of parse()
Init ==
    /\ pc = "parse"
    /\ lines = <<>>
    /\ nodes = <<>>
    /\ edges = <<>>
    /\ subgraphs = <<>>
    /\ styles = <<>>
    /\ node_classes = <<>>
    /\ current_subgraph = None
    /\ ivr_nodes = <<>>
    /\ node = None
    /\ ivr_node = None
    /\ transformer = None
    /\ second_ivr_nodes = <<>>

\* one line of the diagram, drawn from the set L
ParseLine(L) ==
    \E raw \in L :
        \/ SkipLine(raw)
        \/ ProcessSubgraphDefinition(raw)
        \/ ProcessSubgraphEnd(raw)
        \/ ProcessClassDefinition(raw)
        \/ ProcessClassAssignment(raw)
        \/ ProcessNodes(raw)
        \/ ProcessEdges(raw)
        \/ IgnoreLine(raw)

(***************************************************************************)
(* Spec: diagrams with subgraphs, classes, nodes and edges                 *)
(***************************************************************************)
Next ==
    \/ ParseLine(DiagramLines)
    \/ ParseReturn
    \/ Transform

Spec == Init /\ [][Next]_vars

(***************************************************************************)
(* SpecLabels: diagrams of node declarations, parsed and transformed       *)
(***************************************************************************)
NextLabels ==
    \/ \E raw \in LabelLines : ProcessNodes(raw)
    \/ ParseReturn
    \/ Transform

SpecLabels == Init /\ [][NextLabels]_vars

(***************************************************************************)
(* SpecExample: diagrams made of the lines of the default example          *)
(***************************************************************************)
NextExample ==
    \/ \E raw \in ExampleLines :
          \/ ProcessNodes(raw)
          \/ ProcessEdges(raw)
          \/ IgnoreLine(raw)
    \/ ParseReturn
    \/ Transform

SpecExample == Init /\ [][NextExample]_vars

(***************************************************************************)
(* SpecChain: diagrams of edge lines, some holding more than one edge      *)
(***************************************************************************)
NextChain ==
    \/ \E raw \in ChainLines :
          \/ ProcessEdges(raw)
          \/ IgnoreLine(raw)
    \/ ParseReturn
    \/ Transform

SpecChain == Init /\ [][NextChain]_vars

(***************************************************************************)
(* SpecTwice: a diagram parsed, then transformed twice, by two calls of    *)
(* transform() on one transformer or by two calls of graph_to_ivr          *)
(***************************************************************************)
NextTwice ==
    \/ \E raw \in TwiceLines :
          \/ ProcessNodes(raw)
          \/ ProcessEdges(raw)
    \/ ParseReturn
    \/ Transform
    \/ TransformAgain
    \/ GraphToIvrAgain

SpecTwice == Init /\ [][NextTwice]_vars

(***************************************************************************)
(* SpecNode: one call of _transform_node(node, edges, styles), statement   *)
(* by statement, on a Node and an edge list as parse() builds them         *)
(***************************************************************************)
\* longest edge list
MaxEdges == 2

\* most words in a raw text
MaxWords == 2

TextWords ==
    { <<"t","r","a","n","s","f","e","r">>, <<"T","R","A","N","S","F","E","R">>, <<"T","r","a","n","s","f","e","r","r","e","d">>, <<"a","c","c","e","p","t">>, <<"U","n","a","c","c","e","p","t","a","b","l","e">>, <<"d","e","c","l","i","n","e">>,
      <<"n","o","t","_","h","o","m","e">>, <<"q","u","a","l","i","f","i","e","d","_","n","o">>, <<"e","r","r","o","r">>, <<"p","l","e","a","s","e">>, <<"h","e","l","l","o">> }

RECURSIVE SeqsUpTo(_, _)
\* the sequences over S of length 0..n
SeqsUpTo(S, n) ==
    IF n = 0 THEN {<<>>}
    ELSE LET shorter == SeqsUpTo(S, n - 1)
         IN  shorter \cup {Append(q, x) : q \in {r \in shorter : Len(r) = n - 1}, x \in S}

\* raw texts: one to MaxWords words separated by single spaces
NodeTexts == {Join(<<" ">>, ws) : ws \in SeqsUpTo(TextWords, MaxWords) \ {<<>>}}

EdgeLabels ==
    { None, Some(<<"1"," ","-"," ","a">>), Some(<<"1"," ","-"," ","b">>), Some(<<"2"," ","-"," ","a">>), Some(<<"i","n","v","a","l","i","d">>), Some(<<"e","r","r","o","r">>),
      Some(<<"1"," ","-"," ","i","n","v","a","l","i","d">>), Some(<<"N","o"," ","I","n","p","u","t">>) }

\* edges out of the node n, and one edge into it
NodeEdges ==
    { [from_id |-> <<"n">>, to_id |-> t, label |-> l, style |-> None] :
        t \in {<<"m">>, <<"e","n","d","_","c","a","l","l">>}, l \in EdgeLabels }
    \cup { [from_id |-> <<"m">>, to_id |-> <<"n">>, label |-> None, style |-> None] }

\* a Node as ProcessNodes builds it
NodeOf(text, type, shared) ==
    [id |-> <<"n">>, raw_text |-> text, node_type |-> type,
     style_classes |-> [shared |-> shared], subgraph |-> None]

\* the arguments of the call: many texts with few edges, or few texts with
\* many edge lists
InitNode ==
    /\ pc = "base"
    /\ \/ /\ \E text \in NodeTexts, type \in {"normal", "rhombus"}, shared \in BOOLEAN :
                node = NodeOf(text, type, shared)
          /\ edges \in SeqsUpTo({e \in NodeEdges : e.to_id = <<"e","n","d","_","c","a","l","l">> /\ e.label = None}, 1)
       \/ /\ \E text \in {<<"h","e","l","l","o">>, <<"t","r","a","n","s","f","e","r"," ","a","c","c","e","p","t">>}, type \in {"round", "rhombus"} :
                node = NodeOf(text, type, FALSE)
          /\ edges \in SeqsUpTo(NodeEdges, MaxEdges)
    /\ styles = << <<<<"h","o","t">>, <<"f","i","l","l",":","#","f","9","6">>>> >>
    /\ node_classes = << <<<<"n">>, <<<<"h","o","t">>, <<"c","o","l","d">>>> >> >>
    /\ ivr_node = None
    /\ lines = <<>>
    /\ nodes = <<>>
    /\ subgraphs = <<>>
    /\ current_subgraph = None
    /\ ivr_nodes = <<>>
    /\ transformer = IVRTransformer
    /\ second_ivr_nodes = <<>>

\* "Build base node"
BuildBaseNode ==
    /\ pc = "base"
    /\ ivr_node' = BaseNode(node)
    /\ pc' = "styles"
    /\ UNCHANGED <<lines, nodes, edges, subgraphs, styles, node_classes,
                   current_subgraph, ivr_nodes, node,
                   transformer, second_ivr_nodes>>

\* "Apply styles"
ApplyNodeStyles ==
    /\ pc = "styles"
    /\ ivr_node' = ApplyStyles(ivr_node, StyleClasses(node, node_classes), styles)
    /\ pc' = "shape"
    /\ UNCHANGED <<lines, nodes, edges, subgraphs, styles, node_classes,
                   current_subgraph, ivr_nodes, node,
                   transformer, second_ivr_nodes>>

\* "Handle decision nodes (rhombus)"
DecisionStep ==
    /\ pc = "shape"
    /\ node.node_type = "rhombus"
    /\ ivr_node' = HandleDecisionNode(ivr_node, node, edges)
    /\ pc' = "special"
    /\ UNCHANGED <<lines, nodes, edges, subgraphs, styles, node_classes,
                   current_subgraph, ivr_nodes, node,
                   transformer, second_ivr_nodes>>

\* the else branch: _handle_action_node
ActionStep ==
    /\ pc = "shape"
    /\ node.node_type # "rhombus"
    /\ ivr_node' = HandleActionNode(ivr_node, node, edges)
    /\ pc' = "special"
    /\ UNCHANGED <<lines, nodes, edges, subgraphs, styles, node_classes,
                   current_subgraph, ivr_nodes, node,
                   transformer, second_ivr_nodes>>

\* "Add special commands based on text or type"
SpecialStep ==
    /\ pc = "special"
    /\ ivr_node' = AddSpecialCommands(transformer, ivr_node, node.raw_text)
    /\ pc' = "return"
    /\ UNCHANGED <<lines, nodes, edges, subgraphs, styles, node_classes,
                   current_subgraph, ivr_nodes, node,
                   transformer, second_ivr_nodes>>

NextNode ==
    \/ BuildBaseNode
    \/ ApplyNodeStyles
    \/ DecisionStep
    \/ ActionStep
    \/ SpecialStep

SpecNode == InitNode /\ [][NextNode]_vars

(***************************************************************************)
(* Claims about the boilerplate nodes and the labels (SpecLabels)          *)
(***************************************************************************)
\* the ids of the declared nodes, in order
NodeIds == DictKeys(nodes)

\* positions of the output whose label is the given one
Labelled(label) == {i \in 1..Len(ivr_nodes) : ivr_nodes[i].label = label}

\* C1: when no node id starts with "start" (case-insensitive), the first
\* element of the output of transform() is the fixed start node, whatever
\* the raw texts are.
C1_StartNodeFirst ==
    (pc = "done" /\ \A i \in 1..Len(NodeIds) : ~StartsWith(Lower(NodeIds[i]), <<"s","t","a","r","t">>))
    => (ivr_nodes # <<>> /\ ivr_nodes[1] = standard_nodes.start)

\* C2: every node of the output of transform() has a non-empty label and
\* no two nodes of the output share a label.
C2_LabelsNonEmptyUnique ==
    pc = "done" =>
        /\ \A i \in 1..Len(ivr_nodes) : ivr_nodes[i].label # <<>>
        /\ \A i, j \in 1..Len(ivr_nodes) :
              i # j => ivr_nodes[i].label # ivr_nodes[j].label

\* C5: when the graph has a node whose id humanizes to "Problems", the
\* output of transform() has exactly one node labelled "Problems".
C5_SingleProblemsNode ==
    (pc = "done" /\ \E i \in 1..Len(NodeIds) : ToTitleCase(NodeIds[i]) = <<"P","r","o","b","l","e","m","s">>)
    => Cardinality(Labelled(<<"P","r","o","b","l","e","m","s">>)) = 1

\* C10: the output of transform() is never empty and has a node labelled
\* "Start"; when the fixed start node is not injected, a produced node has
\* that label.
C10_StartLabelledEntry ==
    pc = "done" => (ivr_nodes # <<>> /\ Labelled(<<"S","t","a","r","t">>) # {})

(***************************************************************************)
(* Claim about the default example (SpecExample)                           *)
(***************************************************************************)
\* the diagrams of the scenario: the declarations of start and input and
\* the two labelled edges out of input, written as in DEFAULT_MERMAID
ScenarioLines ==
    { <<" "," "," "," ","s","t","a","r","t","[","\"","S","t","a","r","t"," ","o","f"," ","c","a","l","l","\"","]">>,
      <<" "," "," "," ","i","n","p","u","t","{","\"","i","n","p","u","t","\"","}">>,
      <<" "," "," "," ","i","n","p","u","t"," ","-","-",">","|","\"","1"," ","-"," ","a","c","c","e","p","t","\"","|"," ","a","c","c","e","p","t">>,
      <<" "," "," "," ","i","n","p","u","t"," ","-","-",">","|","\"","i","n","v","a","l","i","d"," ","i","n","p","u","t","\"","|"," ","i","n","v","a","l","i","d">> }

IsScenario(ls) == Len(ls) = 4 /\ {ls[i] : i \in 1..4} = ScenarioLines

\* the output node made from the node input
InputNode == ivr_nodes[CHOOSE i \in 1..Len(ivr_nodes) : ivr_nodes[i].log = <<"i","n","p","u","t">>]

\* C3: parsing and transforming the scenario diagram gives a script node
\* for input with validChoices "1" and a branch map holding the key "1"
\* (to the humanized accept target) and the keys "error" and "none", both
\* mapped to the humanized label of the invalid target.
C3_ScenarioBranches ==
    (pc = "done" /\ IsScenario(lines)) =>
        /\ \E i \in 1..Len(ivr_nodes) : ivr_nodes[i].log = <<"i","n","p","u","t">>
        /\ "getDigits" \in DOMAIN InputNode
        /\ InputNode.getDigits.validChoices = <<"1">>
        /\ DictHas(InputNode.branch, <<"1">>)
        /\ DictGet(InputNode.branch, <<"1">>) = <<"A","c","c","e","p","t">>
        /\ DictHas(InputNode.branch, <<"e","r","r","o","r">>)
        /\ DictGet(InputNode.branch, <<"e","r","r","o","r">>) = <<"I","n","v","a","l","i","d">>
        /\ DictHas(InputNode.branch, <<"n","o","n","e">>)
        /\ DictGet(InputNode.branch, <<"n","o","n","e">>) = <<"I","n","v","a","l","i","d">>

(***************************************************************************)
(* Claims about the parse pass (Spec)                                      *)
(***************************************************************************)
RECURSIVE OpenSubgraphs(_)
\* the ids of the subgraphs open after the lines ls, outermost first: a
\* subgraph line opens one inside those already open, an end line closes
\* the innermost
OpenSubgraphs(ls) ==
    IF ls = <<>> THEN <<>>
    ELSE LET before == OpenSubgraphs(SubSeq(ls, 1, Len(ls) - 1))
             last == ls[Len(ls)]
         IN  IF KindOf[last] = "subgraph"
             THEN Append(before, SubgraphPatternMatch(Strip(last)).id)
             ELSE IF KindOf[last] = "end" /\ before # <<>>
             THEN SubSeq(before, 1, Len(before) - 1)
             ELSE before

\* None, or the innermost of the open subgraphs
Innermost(open) == IF open = <<>> THEN None ELSE Some(open[Len(open)])

\* the ids of the subgraph lines among ls, in line order
OpenedSubgraphs(ls) ==
    LET at == SelectSeq(ls, LAMBDA raw : KindOf[raw] = "subgraph")
    IN  [i \in 1..Len(at) |-> SubgraphPatternMatch(Strip(at[i])).id]

\* C6: in a diagram that opens each subgraph id once, an end line closes
\* the innermost open subgraph only, so that every node declared while a
\* subgraph is open is tagged with the innermost open one (the outer one
\* again once a nested subgraph has been closed), and a subgraph opened
\* there has the enclosing subgraph as parent.
C6_InnermostOpenSubgraph ==
    LET open == OpenSubgraphs(SubSeq(lines, 1, Len(lines) - 1))
        last == Strip(lines[Len(lines)])
        opened == OpenedSubgraphs(lines)
    IN  (/\ pc = "parse"
         /\ lines # <<>>
         /\ \A i, j \in 1..Len(opened) : i # j => opened[i] # opened[j])
        =>
            /\ KindOf[lines[Len(lines)]] = "node" =>
                  DictGet(nodes, SubSeq(last, 1, SpanEnd(last, 1, WordChars) - 1)).subgraph
                      = Innermost(open)
            /\ KindOf[lines[Len(lines)]] = "subgraph" =>
                  DictGet(subgraphs, SubgraphPatternMatch(last).id).parent
                      = Innermost(open)

RECURSIVE ClassStatements(_, _)
\* the class names that the class-assignment lines among ls give to the
\* node id, in line order
ClassStatements(ls, id) ==
    IF ls = <<>> THEN <<>>
    ELSE LET before == ClassStatements(SubSeq(ls, 1, Len(ls) - 1), id)
             m == ClassPatternMatch(Strip(ls[Len(ls)]))
         IN  IF KindOf[ls[Len(ls)]] = "class" /\ m.node_id = id
             THEN Append(before, m.class_name)
             ELSE before

\* C7: after parse(), the style_classes of each declared node are the
\* class names of all the class-assignment lines for its id, in line order
\* and with duplicates, wherever those lines stand relative to the
\* declaration.
C7_StyleClassesAllStatements ==
    pc = "parsed" =>
        \A i \in 1..Len(nodes) :
            StyleClasses(nodes[i][2], node_classes) = ClassStatements(lines, nodes[i][1])

(***************************************************************************)
(* Claims about one transformed node (SpecNode)                            *)
(***************************************************************************)
\* the edges whose source is the node under transformation
NodeOutEdges == SelectSeq(edges, LAMBDA e : e.from_id = node.id)

RECURSIVE SplitOn(_, _, _)
\* s.split(c) for a one-character c, cur being the entry under way
SplitOn(s, c, cur) ==
    IF s = <<>> THEN <<cur>>
    ELSE IF Head(s) = c THEN <<cur>> \o SplitOn(Tail(s), c, <<>>)
    ELSE SplitOn(Tail(s), c, Append(cur, Head(s)))

\* the entries of a validChoices string: none for "", else the parts
\* between the "|"
ChoiceEntries(s) == IF s = <<>> THEN <<>> ELSE SplitOn(s, "|", <<>>)

RECURSIVE FirstOccurrences(_)
\* q without the repetitions of its elements, first occurrences kept
FirstOccurrences(q) ==
    IF q = <<>> THEN <<>>
    ELSE LET before == FirstOccurrences(SubSeq(q, 1, Len(q) - 1))
             last == q[Len(q)]
         IN  IF \E i \in 1..Len(before) : before[i] = last THEN before
             ELSE Append(before, last)

\* the labels "<digits> - <description>" among the outgoing edges, in edge
\* order
DigitLabels ==
    LET labelled == SelectSeq(NodeOutEdges,
                        LAMBDA e : e.label # None /\ DigitMatch(e.label[1]).ok)
    IN  [i \in 1..Len(labelled) |-> labelled[i].label[1]]

\* C4: for a decision node, validChoices has one entry per distinct
\* digit-prefixed label among the outgoing edges, in edge-encounter order,
\* also when two edges carry the same digit-prefixed label.
C4_ValidChoicesPerDistinctLabel ==
    (pc = "return" /\ node.node_type = "rhombus") =>
        LET distinct == FirstOccurrences(DigitLabels)
        IN  ChoiceEntries(ivr_node.getDigits.validChoices)
                = [i \in 1..Len(distinct) |-> DigitMatch(distinct[i]).digit]

\* the humanized form of the target ids the edges use
HumanizedTarget(id) ==
    CASE id = <<"m">> -> <<"M">>
      [] id = <<"n">> -> <<"N">>
      [] id = <<"e","n","d","_","c","a","l","l">> -> <<"E","n","d"," ","C","a","l","l">>

\* C8: a non-decision node with exactly one edge out of it carries a goto
\* to the humanized target of that edge (declared or not); with no edge or
\* several edges out of it, it carries no goto; the special-command step
\* leaves goto as the shape step made it, and a decision node has none.
C8_GotoOfSingleEdge ==
    pc \in {"special", "return"} =>
        IF node.node_type # "rhombus" /\ Len(NodeOutEdges) = 1
        THEN /\ "goto" \in DOMAIN ivr_node
             /\ ivr_node.goto = HumanizedTarget(NodeOutEdges[1].to_id)
        ELSE "goto" \notin DOMAIN ivr_node

\* C8 witness: an action node with one outgoing edge, to the undeclared
\* id end_call, after the special-command step attached the transfer
\* commands
C8_Witness ==
    /\ pc = "return"
    /\ node.node_type = "round"
    /\ Len(edges) = 2
    /\ Len(NodeOutEdges) = 1
    /\ NodeOutEdges[1].to_id = <<"e","n","d","_","c","a","l","l">>
    /\ ivr_node.goto = <<"E","n","d"," ","C","a","l","l">>
    /\ "gosub" \in DOMAIN ivr_node

\* the text holds the keyword in some letter case
Mentions(text, keyword) == Contains(Lower(text), keyword)

\* the result-code keywords in priority order, with their codes
ResultPriority ==
    << <<<<"a","c","c","e","p","t">>, 1001>>, <<<<"d","e","c","l","i","n","e">>, 1002>>, <<<<"n","o","t","_","h","o","m","e">>, 1006>>,
       <<<<"q","u","a","l","i","f","i","e","d","_","n","o">>, 1145>>, <<<<"e","r","r","o","r">>, 1198>> >>

\* C9: a node of any shape whose raw text holds "transfer" in any letter
\* case ends with gosub "XferCall", setvar transfer_ringback and the xfer
\* include, whatever result keyword the text also holds; without
\* "transfer", the gosub carries the code of the first keyword, in
\* priority order, that the text holds, and there is no gosub when it
\* holds none.
C9_TransferOverridesResultCode ==
    pc = "return" =>
        LET text == node.raw_text
            held == {i \in 1..Len(ResultPriority) : Mentions(text, ResultPriority[i][1])}
        IN  IF Mentions(text, <<"t","r","a","n","s","f","e","r">>)
            THEN /\ {"gosub", "setvar", "include"} \subseteq DOMAIN ivr_node
                 /\ ivr_node.gosub = [str |-> <<"X","f","e","r","C","a","l","l">>]
                 /\ ivr_node.setvar = [transfer_ringback |-> <<"c","a","l","l","f","l","o","w",":","2","2","2","3">>]
                 /\ ivr_node.include = <<".",".","/",".",".","/","u","t","i","l","/","x","f","e","r",".","j","s">>
            ELSE IF held # {}
            THEN /\ "gosub" \in DOMAIN ivr_node
                 /\ DOMAIN ivr_node.gosub = {"list"}
                 /\ ivr_node.gosub.list[1] = <<"S","a","v","e","C","a","l","l","R","e","s","u","l","t">>
                 /\ ivr_node.gosub.list[2] = ResultPriority[Min(held)][2]
            ELSE "gosub" \notin DOMAIN ivr_node

\* C9 witness: a decision node whose text holds "transfer" in upper case
\* and the result keyword "accept", transformed to the transfer gosub
C9_Witness ==
    /\ pc = "return"
    /\ node.node_type = "rhombus"
    /\ node.raw_text = <<"a","c","c","e","p","t"," ","T","R","A","N","S","F","E","R">>
    /\ ivr_node.gosub = [str |-> <<"X","f","e","r","C","a","l","l">>]

(***************************************************************************)
(* Claim about the order of the output (SpecLabels)                        *)
(***************************************************************************)
\* the declaration a node line holds: id, text and shape
DeclarationOf(raw) ==
    LET line == Strip(raw)
        k == Min(MatchingShapes(line))
        match == NodePatternMatch(line, NodeShapes[k].open, NodeShapes[k].close)
    IN  [id |-> match.id, raw_text |-> match.text, node_type |-> NodeShapes[k].type]

\* the declarations among the lines read, in the order of the lines
Declarations ==
    LET decl == SelectSeq(lines, LAMBDA raw : KindOf[raw] = "node")
    IN  [i \in 1..Len(decl) |-> DeclarationOf(decl[i])]

\* the declared nodes: one entry per id, in the order the ids were first
\* met, each holding the last declaration of its id
DeclaredNodes ==
    LET d == Declarations
        first == {i \in 1..Len(d) : \A j \in 1..(i - 1) : d[j].id # d[i].id}
        RankOf(i) == Cardinality({j \in first : j <= i})
        last(id) == d[CHOOSE i \in 1..Len(d) :
                        d[i].id = id /\ \A j \in (i + 1)..Len(d) : d[j].id # id]
    IN  [r \in 1..Cardinality(first) |->
            last(d[CHOOSE i \in first : RankOf(i) = r].id)]

\* the output is pre, then one script node per declared node in order,
\* then suf
OutputIs(pre, suf) ==
    LET user == DeclaredNodes
        p == Len(pre)
    IN  /\ Len(ivr_nodes) = p + Len(user) + Len(suf)
        /\ \A i \in 1..p : ivr_nodes[i] = pre[i]
        /\ \A i \in 1..Len(suf) : ivr_nodes[p + Len(user) + i] = suf[i]
        /\ \A i \in 1..Len(user) :
              /\ ivr_nodes[p + i].label = ToTitleCase(user[i].id)
              /\ ivr_nodes[p + i].log = user[i].raw_text
              /\ ("getDigits" \in DOMAIN ivr_nodes[p + i]) <=> (user[i].node_type = "rhombus")

\* the labels of the script nodes made from the declared nodes
UserLabels == {ToTitleCase(DeclaredNodes[i].id) : i \in 1..Len(DeclaredNodes)}

\* the boilerplate that may stand before and after the declared nodes
StartPrefixes == {<<>>, <<standard_nodes.start>>}

EndSuffixes ==
    {<<>>, <<standard_nodes.problems>>, <<standard_nodes.goodbye>>,
     <<standard_nodes.problems, standard_nodes.goodbye>>}

\* the graph holds the declared nodes in the order of their declarations
GraphInDeclarationOrder ==
    /\ Len(nodes) = Len(DeclaredNodes)
    /\ \A i \in 1..Len(nodes) :
          /\ nodes[i][1] = DeclaredNodes[i].id
          /\ nodes[i][2].id = DeclaredNodes[i].id
          /\ nodes[i][2].raw_text = DeclaredNodes[i].raw_text
          /\ nodes[i][2].node_type = DeclaredNodes[i].node_type

\* the part of C11 about the order alone: the declared nodes in
\* declaration order, the fixed start node before them, the fixed
\* Problems and Goodbye nodes after them in that order
OutputInDeclarationOrder ==
    pc = "done" =>
        /\ GraphInDeclarationOrder
        /\ \E pre \in StartPrefixes : \E suf \in EndSuffixes : OutputIs(pre, suf)

\* C11: the output of parse-then-transform lists the declared nodes in the
\* order their declaration lines were met (a re-declared id keeps one
\* entry, with the text and shape of its last declaration), the fixed
\* start node before all of them when it is injected, the fixed Problems
\* and Goodbye nodes after all of them in that order when they are
\* injected; each fixed node is injected only when no declared node
\* stands for it (none is named Start, Problems, Goodbye).
C11_DeclarationOrderAndBoilerplate ==
    pc = "done" =>
        /\ GraphInDeclarationOrder
        /\ \E pre \in StartPrefixes : \E suf \in EndSuffixes :
              /\ OutputIs(pre, suf)
              /\ pre # <<>> => <<"S","t","a","r","t">> \notin UserLabels
              /\ (\E i \in 1..Len(suf) : suf[i] = standard_nodes.problems)
                    => <<"P","r","o","b","l","e","m","s">> \notin UserLabels
              /\ (\E i \in 1..Len(suf) : suf[i] = standard_nodes.goodbye)
                    => <<"G","o","o","d","b","y","e">> \notin UserLabels

(***************************************************************************)
(* Claim about the lines that hold several edges (SpecChain)               *)
(***************************************************************************)
RECURSIVE EndpointGroups(_, _)
\* the groups of node ids that the arrows of a line separate, left to
\* right, from the blank-separated tokens of the line: a token that begins
\* with "-" is an arrow (its |label| included), "&" joins the ids of one
\* group, cur being the group under way
EndpointGroups(tokens, cur) ==
    IF tokens = <<>> THEN <<cur>>
    ELSE IF Head(Head(tokens)) = "-" THEN <<cur>> \o EndpointGroups(Tail(tokens), <<>>)
    ELSE IF Head(tokens) = <<"&">> THEN EndpointGroups(Tail(tokens), cur)
    ELSE EndpointGroups(Tail(tokens), Append(cur, Head(tokens)))

RECURSIVE Pairs(_, _)
\* the pairs <<s, t>>, s in sources and t in targets, sources first
Pairs(sources, targets) ==
    IF sources = <<>> THEN <<>>
    ELSE [i \in 1..Len(targets) |-> <<Head(sources), targets[i]>>]
         \o Pairs(Tail(sources), targets)

RECURSIVE GroupEdges(_)
\* the edges between each group and the next one
GroupEdges(groups) ==
    IF Len(groups) < 2 THEN <<>>
    ELSE Pairs(groups[1], groups[2]) \o GroupEdges(Tail(groups))

\* the edge occurrences of a line, as <<source, target>>, left to right
EdgeOccurrences(raw) == GroupEdges(EndpointGroups(Split(raw), <<>>))

RECURSIVE AllEdgeOccurrences(_)
\* the edge occurrences of the lines ls, line after line
AllEdgeOccurrences(ls) ==
    IF ls = <<>> THEN <<>>
    ELSE EdgeOccurrences(Head(ls)) \o AllEdgeOccurrences(Tail(ls))

\* C12: a line holding k >= 1 edge occurrences (one edge, a chain
\* A --> B --> C, or the form "success & fail --> end") adds every one of
\* them to the edge list, left to right: the edge list parse() returns is
\* the list of the edge occurrences of the lines, in order.
C12_EveryEdgeOfALine ==
    pc = "parsed" =>
        [i \in 1..Len(edges) |-> <<edges[i].from_id, edges[i].to_id>>]
            = AllEdgeOccurrences(lines)

\* the same for the diagrams whose lines hold one edge each, where the
\* edge list is the list of the occurrences
OneEdgePerLine ==
    (pc = "parsed" /\ \A i \in 1..Len(lines) : Len(EdgeOccurrences(lines[i])) = 1)
    => [i \in 1..Len(edges) |-> <<edges[i].from_id, edges[i].to_id>>]
            = AllEdgeOccurrences(lines)

LabelledOutEdges ==
    SelectSeq(NodeOutEdges, LAMBDA e : e.label # None /\ e.label[1] # <<>>)

\* the label of the k-th labelled edge
LabelAt(k) == LabelledOutEdges[k].label[1]

\* the labelled edges whose label holds "invalid" or "no input" in some
\* letter case
InvalidEdges ==
    {k \in 1..Len(LabelledOutEdges) :
        Mentions(LabelAt(k), <<"i","n","v","a","l","i","d">>) \/ Mentions(LabelAt(k), <<"n","o"," ","i","n","p","u","t">>)}

\* the greatest element of a non-empty set of numbers
LastOf(S) == CHOOSE m \in S : \A k \in S : k <= m

\* the branch map of the node is the one its labelled edges alone give
UnlabelledEdgesGiveNoKey ==
    ivr_node.branch = HandleDecisionNode(BaseNode(node), node, LabelledOutEdges).branch

\* C14: for a decision node and any list of edges out of it, the branch
\* map has the key "error" if and only if it has the key "none"; when it
\* has them, both map to the humanized target of the last edge whose label
\* holds "invalid" or "no input" in some letter case; the edges without a
\* label give no key.
C14_ErrorIffNone ==
    (pc \in {"special", "return"} /\ node.node_type = "rhombus") =>
        LET branch == ivr_node.branch
        IN  /\ DictHas(branch, <<"e","r","r","o","r">>) <=> DictHas(branch, <<"n","o","n","e">>)
            /\ (DictHas(branch, <<"e","r","r","o","r">>) /\ DictHas(branch, <<"n","o","n","e">>)) =>
                  /\ InvalidEdges # {}
                  /\ DictGet(branch, <<"e","r","r","o","r">>)
                        = HumanizedTarget(LabelledOutEdges[LastOf(InvalidEdges)].to_id)
                  /\ DictGet(branch, <<"n","o","n","e">>) = DictGet(branch, <<"e","r","r","o","r">>)
            /\ UnlabelledEdgesGiveNoKey

\* the edges that set the keys "error" and "none": those of InvalidEdges
\* whose label is not of the form "<digits> - <description>", which the
\* loop tests first
ErrorEdges == {k \in InvalidEdges : ~DigitMatch(LabelAt(k)).ok}

\* no edge out of the node is labelled with the very word "error" or "none"
NoLiteralErrorLabel ==
    \A k \in 1..Len(LabelledOutEdges) : LabelAt(k) \notin {<<"e","r","r","o","r">>, <<"n","o","n","e">>}

\* C14 as it holds: for a decision node none of whose edges is labelled
\* with the very word "error" or "none", the branch map has the key
\* "error" if and only if it has the key "none", and has them exactly when
\* some edge's label holds "invalid" or "no input" in some letter case and
\* is not of the form "<digits> - <description>"; both keys map to the
\* humanized target of the last such edge; the edges without a label give
\* no key.
C14_ErrorIffNoneWithoutLiteralLabels ==
    (pc \in {"special", "return"} /\ node.node_type = "rhombus" /\ NoLiteralErrorLabel) =>
        LET branch == ivr_node.branch
        IN  /\ DictHas(branch, <<"e","r","r","o","r">>) <=> ErrorEdges # {}
            /\ DictHas(branch, <<"n","o","n","e">>) <=> ErrorEdges # {}
            /\ ErrorEdges # {} =>
                  /\ DictGet(branch, <<"e","r","r","o","r">>)
                        = HumanizedTarget(LabelledOutEdges[LastOf(ErrorEdges)].to_id)
                  /\ DictGet(branch, <<"n","o","n","e">>) = DictGet(branch, <<"e","r","r","o","r">>)
            /\ UnlabelledEdgesGiveNoKey

\* C14 witness: a decision node with an edge labelled "No Input" to m and,
\* after it, an edge labelled "1 - invalid" to end_call: error and none
\* lead to M, the key "1" to End Call
C14_Witness ==
    /\ pc = "return"
    /\ node.node_type = "rhombus"
    /\ Len(LabelledOutEdges) = 2
    /\ LabelAt(1) = <<"N","o"," ","I","n","p","u","t">>
    /\ LabelAt(2) = <<"1"," ","-"," ","i","n","v","a","l","i","d">>
    /\ DictGet(ivr_node.branch, <<"e","r","r","o","r">>) = <<"M">>
    /\ DictGet(ivr_node.branch, <<"n","o","n","e">>) = <<"M">>
    /\ DictGet(ivr_node.branch, <<"1">>) = <<"E","n","d"," ","C","a","l","l">>

====
